---- MODULE Spec2Model ----
(***************************************************************************)
(* Model of juliaset-pipeline-launch.py: launch_setup builds the node      *)
(* descriptions of the composite and of the pipeline container, one        *)
(* statement after the other, and build_profile_name names the nsys        *)
(* output.  Strings are TLC strings (sequences of characters); a Python    *)
(* list is a sequence, a tuple is a tuple, a dict is a sequence of         *)
(* <<key, value>> pairs in insertion order.                                *)
(***************************************************************************)
EXTENDS Integers, Sequences, FiniteSets, TLC

(* ------------------------------------------------------------------ *)
(* Bounds of the model                                                 *)
(* ------------------------------------------------------------------ *)

\* Chain lengths 1 .. MaxChain are explored besides the program's own 50.
MaxChain == 3

(* ------------------------------------------------------------------ *)
(* Values                                                              *)
(* ------------------------------------------------------------------ *)

\* A local of launch_setup that no statement has assigned yet: an object or a
\* list, and a string.  (An unassigned bool holds FALSE and an int 0; no
\* statement reads a local before it is assigned.)
Unbound == [unbound |-> TRUE]
UnboundStr == "<unbound>"

\* A Python float m / d, d a power of ten.
Float(m, d) == [num |-> m, den |-> d]

\* int(x) of a float: truncation toward zero.
PyInt(x) ==
    IF x.num >= 0 THEN x.num \div x.den ELSE -((-x.num) \div x.den)

\* float(n) of an int.
PyFloat(n) == Float(n, 1)

Digit(d) ==
    CASE d = 0 -> "0" [] d = 1 -> "1" [] d = 2 -> "2" [] d = 3 -> "3"
      [] d = 4 -> "4" [] d = 5 -> "5" [] d = 6 -> "6" [] d = 7 -> "7"
      [] d = 8 -> "8" [] d = 9 -> "9"

RECURSIVE FormatNat(_)
FormatNat(n) ==
    IF n < 10 THEN Digit(n) ELSE FormatNat(n \div 10) \o Digit(n % 10)

\* '%d' % n, and {n} of an f-string for an int: the decimal digits.
FormatInt(n) == IF n < 0 THEN "-" \o FormatNat(-n) ELSE FormatNat(n)

(* ------------------------------------------------------------------ *)
(* Module constants of the launch file                                 *)
(* ------------------------------------------------------------------ *)

ResolutionKeys == {"16K", "8K", "4K", "1080p", "720p", "480p"}

RESOLUTIONS ==
    [k \in ResolutionKeys |->
        CASE k = "16K"   -> <<15360, 8640>>
          [] k = "8K"    -> <<7680, 4320>>
          [] k = "4K"    -> <<3840, 2160>>
          [] k = "1080p" -> <<1920, 1080>>
          [] k = "720p"  -> <<1280, 720>>
          [] k = "480p"  -> <<852, 480>>]

IMAGE_HZ == Float(1000, 10)

MAX_ITERATION == 50

\* JULIASET_PARAMS; max_iterations is float(MAX_ITERATION), n here.
JULIASET_PARAMS(n) ==
    << << <<"min_x_range", Float(-25, 10)>> >>,
       << <<"max_x_range", Float(25, 10)>> >>,
       << <<"min_y_range", Float(-15, 10)>> >>,
       << <<"max_y_range", Float(15, 10)>> >>,
       << <<"start_x", Float(7885, 10000)>> >>,
       << <<"start_y", Float(7885, 10000)>> >>,
       << <<"boundary_radius", Float(250, 10)>> >>,
       << <<"max_iterations", PyFloat(n)>> >> >>

(* ------------------------------------------------------------------ *)
(* Launch arguments: the values a command line can give                *)
(* ------------------------------------------------------------------ *)

Configs == {"pipeline", "composite", "mt-pipeline"}
ResolutionArgs == ResolutionKeys \cup {"2K"}
BoolArgs == {"true", "false"}
Labels == {"", "run1"}
ProfileFlags == {"--trace=osrt,nvtx,cuda", "--stats=true"}
Machines == {"x86_64", "aarch64"}
ChainLengths == (1 .. MaxChain) \cup {MAX_ITERATION}

VARIABLES
    context,            \* the launch configurations, name -> string
    machine,            \* platform.machine() of the host
    chain_length,       \* MAX_ITERATION as launch_setup reads it
    pc,                 \* the statement launch_setup is at
    config, resolution, enable_mt, enable_nsys,
    nsys_profile_label, nsys_profile_flags,
    nsys_profile_name, container_prefix,
    cam2image_node, composite_node, composite_container,
    pipeline_nodes, i, pipeline_container,
    result,             \* the list launch_setup returns
    error               \* the exception launch_setup raised

vars == <<context, machine, chain_length, pc, config, resolution, enable_mt,
          enable_nsys, nsys_profile_label, nsys_profile_flags,
          nsys_profile_name, container_prefix, cam2image_node, composite_node,
          composite_container, pipeline_nodes, i, pipeline_container, result,
          error>>

(* ------------------------------------------------------------------ *)
(* The launch library, as the launch file uses it                      *)
(* ------------------------------------------------------------------ *)

\* LaunchConfiguration(name).perform(context)
Perform(ctx, name) == ctx[name]

\* IfCondition(LaunchConfiguration(name)).evaluate(context)
IfCondition(ctx, name) == Perform(ctx, name) \in {"true", "1"}

\* LaunchConfigurationEquals(name, value), and its evaluation
LaunchConfigurationEquals(name, value) == [name |-> name, expected |-> value]
Evaluate(cond, ctx) == Perform(ctx, cond.name) = cond.expected

\* ComposableNode(...); extra_arguments and parameters default to none.
ComposableNode(package, plugin, name, parameters, remappings, extra) ==
    [package |-> package, plugin |-> plugin, name |-> name,
     parameters |-> parameters, remappings |-> remappings,
     extra_arguments |-> extra]

(* ------------------------------------------------------------------ *)
(* build_profile_name                                                  *)
(* ------------------------------------------------------------------ *)

\* build_profile_name with the label segment appended also when it is empty.
build_profile_name_always_label(label, cfg, mt, res) ==
    "ros-type_adapt-" \o machine \o (IF ~mt THEN "" ELSE "-mt")
        \o "-" \o cfg \o "-" \o res \o "-" \o FormatInt(PyInt(IMAGE_HZ)) \o "hz"
        \o "-" \o label

build_profile_name(label, cfg, mt, res) ==
    "ros-type_adapt-" \o machine \o (IF ~mt THEN "" ELSE "-mt")
        \o "-" \o cfg \o "-" \o res \o "-" \o FormatInt(PyInt(IMAGE_HZ)) \o "hz"
        \o (IF label = "" THEN "" ELSE "-" \o label)

\* f'nsys profile {nsys_profile_flags} -o {nsys_profile_name}'
ProfilePrefix(flags, name) == "nsys profile " \o flags \o " -o " \o name

(* ------------------------------------------------------------------ *)
(* The node descriptions                                               *)
(* ------------------------------------------------------------------ *)

\* Cam2ImageParameters with the two entries of the table swapped.
Cam2ImageParameters_swapped(res) ==
    << << <<"burger_mode", TRUE>>,
          <<"history", "keep_last">>,
          <<"frequency", IMAGE_HZ>>,
          <<"width", RESOLUTIONS[res][2]>>,
          <<"height", RESOLUTIONS[res][1]>> >> >>

Cam2ImageParameters(res) ==
    << << <<"burger_mode", TRUE>>,
          <<"history", "keep_last">>,
          <<"frequency", IMAGE_HZ>>,
          <<"width", RESOLUTIONS[res][1]>>,
          <<"height", RESOLUTIONS[res][2]>> >> >>

Cam2ImageNode(res) ==
    ComposableNode("image_tools", "image_tools::Cam2Image", "cam2image",
                   Cam2ImageParameters(res),
                   << <<"/image", "/image_in">> >>,
                   << << <<"use_intra_process_comms", TRUE>> >> >>)

\* CompositeRemappings publishing on the pipeline's output topic.
CompositeRemappings_pipeline_topic == << <<"/image_out", "/pipeline/image_out">> >>

CompositeRemappings == << <<"/image_out", "/composite/image_out">> >>

CompositeNode(n) ==
    ComposableNode("julia_set_example", "type_adapt_example::JuliasetNode",
                   "juliaset_node",
                   << << <<"is_composite", TRUE>> >> >> \o JULIASET_PARAMS(n),
                   CompositeRemappings, <<>>)

MapNode(n) ==
    ComposableNode("julia_set_example", "type_adapt_example::MapNode",
                   "map_node", JULIASET_PARAMS(n),
                   << <<"/image_out", "/image_out0">> >>, <<>>)

\* IterName numbering from 0.
IterName_from_zero(k) == "juliaset_node" \o FormatInt(k - 1)

\* 'juliaset_node%d' % (i)
IterName(k) == "juliaset_node" \o FormatInt(k)

IterParameters(k, n) ==
    << << <<"is_composite", FALSE>> >>, << <<"proc_id", k>> >> >>
        \o JULIASET_PARAMS(n)

\* IterRemappings reading the topic the node itself writes.
IterRemappings_self(k) ==
    << <<"/image_in", "/image_out" \o FormatInt(k)>>,
       <<"/image_out", "/image_out" \o FormatInt(k)>> >>

IterRemappings(k) ==
    << <<"/image_in", "/image_out" \o FormatInt(k - 1)>>,
       <<"/image_out", "/image_out" \o FormatInt(k)>> >>

IterNode(k, n) ==
    ComposableNode("julia_set_example", "type_adapt_example::JuliasetNode",
                   IterName(k), IterParameters(k, n), IterRemappings(k), <<>>)

\* ColorizeRemappings reading one topic past the last iterative node's.
ColorizeRemappings_past_end(n) ==
    << <<"/image_in", "/image_out" \o FormatInt(n)>>,
       <<"/image_out", "/pipeline/image_out">> >>

ColorizeRemappings(n) ==
    << <<"/image_in", "/image_out" \o FormatInt(n - 1)>>,
       <<"/image_out", "/pipeline/image_out">> >>

ColorizeNode(n) ==
    ComposableNode("julia_set_example", "type_adapt_example::ColorizeNode",
                   "colorize_node",
                   << << <<"max_iterations", PyFloat(n)>> >> >>
                       \o JULIASET_PARAMS(n),
                   ColorizeRemappings(n), <<>>)

\* RangeStop of range(1, MAX_ITERATION + 1).
RangeStop_inclusive(n) == n + 1

\* range(1, MAX_ITERATION): the loop runs while i is below the stop value.
RangeStop(n) == n

(* ------------------------------------------------------------------ *)
(* The containers                                                      *)
(* ------------------------------------------------------------------ *)

Executable(mt) == "component_container" \o (IF mt THEN "_mt" ELSE "")

\* SigTimeout that never extends the grace period.
SigTimeout_short(nsys) == "5"

\* '500' if enable_nsys else '5'
SigTimeout(nsys) == IF nsys THEN "500" ELSE "5"

CompositeCondition == LaunchConfigurationEquals("config", "composite")
\* PipelineCondition testing for the composite configuration.
PipelineCondition_composite == LaunchConfigurationEquals("config", "composite")

PipelineCondition == LaunchConfigurationEquals("config", "pipeline")

ComposableNodeContainer(name, executable, nodes, prefix, kill, term, cond) ==
    [name |-> name, namespace |-> "", package |-> "rclcpp_components",
     executable |-> executable, composable_node_descriptions |-> nodes,
     prefix |-> prefix, sigkill_timeout |-> kill, sigterm_timeout |-> term,
     output |-> "both", condition |-> cond]

(* ------------------------------------------------------------------ *)
(* launch_setup, statement by statement                                *)
(* ------------------------------------------------------------------ *)

Contexts ==
    [config : Configs, resolution : ResolutionArgs, enable_mt : BoolArgs,
     enable_nsys : BoolArgs, nsys_profile_label : Labels,
     nsys_profile_flags : ProfileFlags]

\* generate_launch_description has handed launch_setup to the launch service:
\* the context holds the arguments, no local is assigned.
Init ==
    /\ context \in Contexts
    /\ machine \in Machines
    /\ chain_length \in ChainLengths
    /\ pc = "start"
    /\ config = UnboundStr
    /\ resolution = UnboundStr
    /\ enable_mt = FALSE
    /\ enable_nsys = FALSE
    /\ nsys_profile_label = UnboundStr
    /\ nsys_profile_flags = UnboundStr
    /\ nsys_profile_name = UnboundStr
    /\ container_prefix = UnboundStr
    /\ cam2image_node = Unbound
    /\ composite_node = Unbound
    /\ composite_container = Unbound
    /\ pipeline_nodes = Unbound
    /\ i = 0
    /\ pipeline_container = Unbound
    /\ result = Unbound
    /\ error = "none"

\* lines 70-81
ReadConfiguration ==
    /\ pc = "start"
    /\ config' = Perform(context, "config")
    /\ resolution' = Perform(context, "resolution")
    /\ enable_mt' = IfCondition(context, "enable_mt")
    /\ enable_nsys' = IfCondition(context, "enable_nsys")
    /\ nsys_profile_label' = Perform(context, "nsys_profile_label")
    /\ nsys_profile_flags' = Perform(context, "nsys_profile_flags")
    /\ container_prefix' = ""
    /\ pc' = "nsys"
    /\ UNCHANGED <<context, machine, chain_length, nsys_profile_name,
                   cam2image_node, composite_node, composite_container,
                   pipeline_nodes, i, pipeline_container, result, error>>

\* lines 84-86, profiling enabled
BuildPrefix ==
    /\ pc = "nsys"
    /\ enable_nsys
    /\ nsys_profile_name' =
           build_profile_name(nsys_profile_label, config, enable_mt, resolution)
    /\ container_prefix' = ProfilePrefix(nsys_profile_flags, nsys_profile_name')
    /\ pc' = "cam2image"
    /\ UNCHANGED <<context, machine, chain_length, config, resolution,
                   enable_mt, enable_nsys, nsys_profile_label,
                   nsys_profile_flags, cam2image_node, composite_node,
                   composite_container, pipeline_nodes, i, pipeline_container,
                   result, error>>

\* line 84, profiling disabled
SkipPrefix ==
    /\ pc = "nsys"
    /\ ~enable_nsys
    /\ pc' = "cam2image"
    /\ UNCHANGED <<context, machine, chain_length, config, resolution,
                   enable_mt, enable_nsys, nsys_profile_label,
                   nsys_profile_flags, nsys_profile_name, container_prefix,
                   cam2image_node, composite_node, composite_container,
                   pipeline_nodes, i, pipeline_container, result, error>>

\* lines 88-98, the key is in RESOLUTIONS
MakeCam2Image ==
    /\ pc = "cam2image"
    /\ resolution \in DOMAIN RESOLUTIONS
    /\ cam2image_node' = Cam2ImageNode(resolution)
    /\ pc' = "composite_node"
    /\ UNCHANGED <<context, machine, chain_length, config, resolution,
                   enable_mt, enable_nsys, nsys_profile_label,
                   nsys_profile_flags, nsys_profile_name, container_prefix,
                   composite_node, composite_container, pipeline_nodes, i,
                   pipeline_container, result, error>>

\* line 97, RESOLUTIONS[resolution] raises KeyError: launch_setup ends there
ResolutionKeyError ==
    /\ pc = "cam2image"
    /\ resolution \notin DOMAIN RESOLUTIONS
    /\ error' = "KeyError"
    /\ pc' = "failed"
    /\ UNCHANGED <<context, machine, chain_length, config, resolution,
                   enable_mt, enable_nsys, nsys_profile_label,
                   nsys_profile_flags, nsys_profile_name, container_prefix,
                   cam2image_node, composite_node, composite_container,
                   pipeline_nodes, i, pipeline_container, result>>

\* lines 100-105
MakeCompositeNode ==
    /\ pc = "composite_node"
    /\ composite_node' = CompositeNode(chain_length)
    /\ pc' = "composite_container"
    /\ UNCHANGED <<context, machine, chain_length, config, resolution,
                   enable_mt, enable_nsys, nsys_profile_label,
                   nsys_profile_flags, nsys_profile_name, container_prefix,
                   cam2image_node, composite_container, pipeline_nodes, i,
                   pipeline_container, result, error>>

\* lines 107-118
MakeCompositeContainer ==
    /\ pc = "composite_container"
    /\ composite_container' =
           ComposableNodeContainer("container", Executable(enable_mt),
               <<cam2image_node, composite_node>>, container_prefix,
               SigTimeout(enable_nsys), SigTimeout(enable_nsys),
               CompositeCondition)
    /\ pc' = "pipeline_nodes"
    /\ UNCHANGED <<context, machine, chain_length, config, resolution,
                   enable_mt, enable_nsys, nsys_profile_label,
                   nsys_profile_flags, nsys_profile_name, container_prefix,
                   cam2image_node, composite_node, pipeline_nodes, i,
                   pipeline_container, result, error>>

\* lines 121-128, and the loop variable's first value (line 130)
StartPipeline ==
    /\ pc = "pipeline_nodes"
    /\ pipeline_nodes' = Append(<<cam2image_node>>, MapNode(chain_length))
    /\ i' = 1
    /\ pc' = "loop"
    /\ UNCHANGED <<context, machine, chain_length, config, resolution,
                   enable_mt, enable_nsys, nsys_profile_label,
                   nsys_profile_flags, nsys_profile_name, container_prefix,
                   cam2image_node, composite_node, composite_container,
                   pipeline_container, result, error>>

\* lines 130-137, one iteration
LoopBody ==
    /\ pc = "loop"
    /\ i < RangeStop(chain_length)
    /\ pipeline_nodes' = Append(pipeline_nodes, IterNode(i, chain_length))
    /\ i' = i + 1
    /\ UNCHANGED <<context, machine, chain_length, pc, config, resolution,
                   enable_mt, enable_nsys, nsys_profile_label,
                   nsys_profile_flags, nsys_profile_name, container_prefix,
                   cam2image_node, composite_node, composite_container,
                   pipeline_container, result, error>>

\* line 130, the range is exhausted; lines 139-145
AppendColorize ==
    /\ pc = "loop"
    /\ ~(i < RangeStop(chain_length))
    /\ pipeline_nodes' = Append(pipeline_nodes, ColorizeNode(chain_length))
    /\ pc' = "pipeline_container"
    /\ UNCHANGED <<context, machine, chain_length, config, resolution,
                   enable_mt, enable_nsys, nsys_profile_label,
                   nsys_profile_flags, nsys_profile_name, container_prefix,
                   cam2image_node, composite_node, composite_container, i,
                   pipeline_container, result, error>>

\* lines 147-158
MakePipelineContainer ==
    /\ pc = "pipeline_container"
    /\ pipeline_container' =
           ComposableNodeContainer("pipeline_container", Executable(enable_mt),
               pipeline_nodes, container_prefix,
               SigTimeout(enable_nsys), SigTimeout(enable_nsys),
               PipelineCondition)
    /\ pc' = "return"
    /\ UNCHANGED <<context, machine, chain_length, config, resolution,
                   enable_mt, enable_nsys, nsys_profile_label,
                   nsys_profile_flags, nsys_profile_name, container_prefix,
                   cam2image_node, composite_node, composite_container,
                   pipeline_nodes, i, result, error>>

\* line 160
Return ==
    /\ pc = "return"
    /\ result' = <<pipeline_container, composite_container>>
    /\ pc' = "done"
    /\ UNCHANGED <<context, machine, chain_length, config, resolution,
                   enable_mt, enable_nsys, nsys_profile_label,
                   nsys_profile_flags, nsys_profile_name, container_prefix,
                   cam2image_node, composite_node, composite_container,
                   pipeline_nodes, i, pipeline_container, error>>

Next ==
    \/ ReadConfiguration
    \/ BuildPrefix
    \/ SkipPrefix
    \/ MakeCam2Image
    \/ ResolutionKeyError
    \/ MakeCompositeNode
    \/ MakeCompositeContainer
    \/ StartPipeline
    \/ LoopBody
    \/ AppendColorize
    \/ MakePipelineContainer
    \/ Return

Spec == Init /\ [][Next]_vars

(* ------------------------------------------------------------------ *)
(* Reading a description back                                          *)
(* ------------------------------------------------------------------ *)

StartsWith(s, p) == Len(p) <= Len(s) /\ SubSeq(s, 1, Len(p)) = p
EndsWith(s, p) == Len(p) <= Len(s) /\ SubSeq(s, Len(s) - Len(p) + 1, Len(s)) = p
DropPrefix(s, n) == SubSeq(s, n + 1, Len(s))

DigitValue(c) ==
    CASE c = "0" -> 0 [] c = "1" -> 1 [] c = "2" -> 2 [] c = "3" -> 3
      [] c = "4" -> 4 [] c = "5" -> 5 [] c = "6" -> 6 [] c = "7" -> 7
      [] c = "8" -> 8 [] c = "9" -> 9

\* The number a non-empty string of decimal digits denotes.
RECURSIVE ParseNat(_)
ParseNat(s) ==
    IF Len(s) = 1 THEN DigitValue(s)
    ELSE 10 * ParseNat(SubSeq(s, 1, Len(s) - 1))
             + DigitValue(SubSeq(s, Len(s), Len(s)))

\* Whether a dict has the key, and the value it holds for it.
DictHas(dict, key) == \E e \in 1 .. Len(dict) : dict[e][1] = key
DictGet(dict, key) == dict[CHOOSE e \in 1 .. Len(dict) : dict[e][1] = key][2]

HasParam(node, key) ==
    \E d \in 1 .. Len(node.parameters) : DictHas(node.parameters[d], key)

\* The value of a parameter: of the dicts of the list that write the key, the
\* last one wins.
Param(node, key) ==
    LET ps == node.parameters
        last == CHOOSE d \in 1 .. Len(ps) :
                    /\ DictHas(ps[d], key)
                    /\ \A j \in (d + 1) .. Len(ps) : ~DictHas(ps[j], key)
    IN DictGet(ps[last], key)

\* The physical topic a node's logical topic is remapped to; a topic that no
\* rule names keeps its name.
Route(node, topic) ==
    IF \E k \in 1 .. Len(node.remappings) : node.remappings[k][1] = topic
    THEN node.remappings[CHOOSE k \in 1 .. Len(node.remappings) :
                             /\ node.remappings[k][1] = topic
                             /\ \A j \in 1 .. (k - 1) :
                                    node.remappings[j][1] # topic][2]
    ELSE topic

Cam2ImagePlugin == "image_tools::Cam2Image"
MapPlugin == "type_adapt_example::MapNode"
JuliasetPlugin == "type_adapt_example::JuliasetNode"
ColorizePlugin == "type_adapt_example::ColorizeNode"

\* The capture node publishes /image; every other node reads /image_in and
\* publishes /image_out.
Out(node) ==
    Route(node, IF node.plugin = Cam2ImagePlugin THEN "/image" ELSE "/image_out")
In(node) == Route(node, "/image_in")

Done == pc = "done"
PipelineStages == result[1].composable_node_descriptions
CompositeStages == result[2].composable_node_descriptions

\* The stage index (proc_id) of every stage of the pipeline list that is an
\* iterative stage, and -1 for the stages that are none.
IterIndex ==
    [p \in 1 .. Len(PipelineStages) |->
        IF /\ PipelineStages[p].plugin = JuliasetPlugin
           /\ HasParam(PipelineStages[p], "proc_id")
        THEN Param(PipelineStages[p], "proc_id")
        ELSE -1]

\* The positions of the iterative stages with stage index k.
IterStages(k) == {p \in 1 .. Len(PipelineStages) : IterIndex[p] = k}

\* Some iterative stage k writes the route that some iterative stage k + 1
\* reads.
IterLinked(idx, k) ==
    \E a \in DOMAIN idx :
        /\ idx[a] = k
        /\ \E b \in DOMAIN idx :
               /\ idx[b] = k + 1
               /\ Out(PipelineStages[a]) = In(PipelineStages[b])

\* No two positions of a sequence hold the same value.
Injective(seq) == Cardinality({seq[p] : p \in 1 .. Len(seq)}) = Len(seq)

\* The output route of every stage of the pipeline list, and the input route
\* of every stage after the capture stage.
OutputRoutes == [p \in 1 .. Len(PipelineStages) |-> Out(PipelineStages[p])]
InputRoutes ==
    [p \in 1 .. (Len(PipelineStages) - 1) |-> In(PipelineStages[p + 1])]

NameSuffix(node) == DropPrefix(node.name, Len("juliaset_node"))

(* ------------------------------------------------------------------ *)
(* Properties                                                          *)
(* ------------------------------------------------------------------ *)

\* C1: the pipeline stage list returned for chain length N has N + 2 entries:
\* the capture stage, the mapping stage, the iterative stages 1 .. N-1 in
\* this order, the colorizing stage; for N = 50 it has 52 entries.
C1_StageCount ==
    Done =>
        LET L == PipelineStages
            N == chain_length
        IN /\ Len(L) = N + 2
           /\ L[1].plugin = Cam2ImagePlugin /\ L[1].name = "cam2image"
           /\ L[2].plugin = MapPlugin /\ L[2].name = "map_node"
           /\ \A k \in 1 .. (N - 1) :
                  /\ L[k + 2].plugin = JuliasetPlugin
                  /\ StartsWith(L[k + 2].name, "juliaset_node")
                  /\ ParseNat(NameSuffix(L[k + 2])) = k
           /\ L[N + 2].plugin = ColorizePlugin
           /\ L[N + 2].name = "colorize_node"
           /\ (N = 50 => Len(L) = 52)

C1_Witness ==
    /\ Done
    /\ chain_length = 50
    /\ Len(PipelineStages) = 52
    /\ PipelineStages[52].name = "colorize_node"

\* C2 as stated: for every i in 1 .. N-1 there are an iterative stage i and
\* an iterative stage i+1, the output route of the first is the input route
\* of the second, and the output routes of the chain are pairwise distinct.
C2_AsStated ==
    Done =>
        /\ LET idx == IterIndex
           IN \A k \in 1 .. (chain_length - 1) : IterLinked(idx, k)
        /\ Injective(OutputRoutes)

\* C2: for every i in 1 .. N-2 the output route of iterative stage i is the
\* input route of iterative stage i+1 (the last iterative stage, N-1, has no
\* iterative successor: the colorizing stage reads its output), and the
\* output routes of the chain, as its input routes, are pairwise distinct.
C2_IterativeLinks ==
    Done =>
        /\ LET idx == IterIndex
           IN \A k \in 1 .. (chain_length - 2) : IterLinked(idx, k)
        /\ IterStages(chain_length) = {}
        /\ (chain_length >= 2
                => \E a \in IterStages(chain_length - 1) :
                       /\ PipelineStages[a + 1].plugin = ColorizePlugin
                       /\ Out(PipelineStages[a]) = In(PipelineStages[a + 1]))
        /\ Injective(OutputRoutes)
        /\ Injective(InputRoutes)

C2_Witness ==
    /\ Done
    /\ chain_length = 3
    /\ Out(PipelineStages[3]) = "/image_out1"
    /\ In(PipelineStages[4]) = "/image_out1"

\* C3: from the mapping stage to the colorizing stage every stage's output
\* route is the next stage's input route, stages that are not adjacent share
\* no route, and for N = 1 the colorizing stage reads the mapping stage's
\* output.
C3_ChainLinked ==
    Done =>
        LET L == PipelineStages
            N == chain_length
            ins == [p \in 2 .. Len(L) |-> In(L[p])]
            outs == [p \in 2 .. Len(L) |-> Out(L[p])]
        IN /\ \A p \in 2 .. (Len(L) - 1) : outs[p] = ins[p + 1]
           /\ \A p \in 2 .. Len(L) : \A q \in (p + 2) .. Len(L) :
                  {ins[p], outs[p]} \cap {ins[q], outs[q]} = {}
           /\ L[2].plugin = MapPlugin
           /\ L[Len(L)].plugin = ColorizePlugin
           /\ (N >= 2 => /\ IterStages(1) = {3}
                         /\ Out(L[2]) = In(L[3])
                         /\ IterStages(N - 1) = {N + 1}
                         /\ Out(L[N + 1]) = In(L[N + 2]))
           /\ (N = 1 => /\ Len(L) = 3
                        /\ In(L[3]) = Out(L[2]))

C3_Witness ==
    /\ Done
    /\ chain_length = 1
    /\ Out(PipelineStages[2]) = "/image_out0"
    /\ In(PipelineStages[3]) = "/image_out0"
    /\ PipelineStages[3].plugin = ColorizePlugin

\* C4: a launch_setup that returns, returns the pipeline and the composite
\* container, both constructed; the condition of the container that matches
\* config is the only one that evaluates true, and for a config that is
\* neither pipeline nor composite both evaluate false.
C4_OneActive ==
    Done =>
        LET p == Evaluate(result[1].condition, context)
            c == Evaluate(result[2].condition, context)
            cfg == Perform(context, "config")
        IN /\ Len(result) = 2
           /\ result[1] = pipeline_container
           /\ result[2] = composite_container
           /\ result[1].name = "pipeline_container"
           /\ result[2].name = "container"
           /\ result[1].composable_node_descriptions = pipeline_nodes
           /\ result[2].composable_node_descriptions
                  = <<cam2image_node, composite_node>>
           /\ (cfg = "pipeline" => p /\ ~c)
           /\ (cfg = "composite" => c /\ ~p)
           /\ (cfg \notin {"pipeline", "composite"} => ~p /\ ~c)

C4_Witness ==
    /\ Done
    /\ Perform(context, "config") = "mt-pipeline"
    /\ ~Evaluate(result[1].condition, context)
    /\ ~Evaluate(result[2].condition, context)

\* C5: the composite stage list has two stages for every chain length, the
\* capture stage and the composite stage; the composite stage carries
\* is_composite = TRUE and publishes on a topic that is neither the capture
\* topic nor the pipeline's output topic.
C5_CompositeStages ==
    Done =>
        LET L == CompositeStages
            P == PipelineStages
        IN /\ Len(L) = 2
           /\ L[1].plugin = Cam2ImagePlugin
           /\ L[2].plugin = JuliasetPlugin
           /\ HasParam(L[2], "is_composite")
           /\ Param(L[2], "is_composite") = TRUE
           /\ Out(L[2]) = "/composite/image_out"
           /\ Out(L[2]) # Out(L[1])
           /\ Out(L[2]) # Out(P[Len(P)])

C5_Witness ==
    /\ Done
    /\ chain_length = 50
    /\ Perform(context, "config") = "composite"
    /\ Len(CompositeStages) = 2
    /\ CompositeStages[2].name = "juliaset_node"

\* C6: the name built for (label, config, enable_mt, resolution) and the name
\* built for the same tuple with enable_mt flipped differ in the three
\* characters -mt after the architecture and in nothing else; without
\* enable_mt the configuration follows the architecture at once; an empty
\* label leaves 100hz at the end, another label follows it.
C6_ThreadingSegment ==
    nsys_profile_name # UnboundStr =>
        LET other == build_profile_name(nsys_profile_label, config,
                                        ~enable_mt, resolution)
            with == IF enable_mt THEN nsys_profile_name ELSE other
            plain == IF enable_mt THEN other ELSE nsys_profile_name
            head == "ros-type_adapt-" \o machine
        IN /\ StartsWith(plain, head \o "-" \o config \o "-")
           /\ StartsWith(with, head \o "-mt-" \o config \o "-")
           /\ DropPrefix(with, Len(head) + 3) = DropPrefix(plain, Len(head))
           /\ Len(with) = Len(plain) + 3
           /\ (nsys_profile_label = ""
                   => EndsWith(nsys_profile_name, "-" \o resolution \o "-100hz"))
           /\ (nsys_profile_label # ""
                   => EndsWith(nsys_profile_name,
                               "-" \o resolution \o "-100hz-" \o nsys_profile_label))

C6_Witness ==
    /\ nsys_profile_name # UnboundStr
    /\ enable_mt
    /\ nsys_profile_label = ""
    /\ config = "pipeline"
    /\ resolution = "720p"
    /\ EndsWith(nsys_profile_name, "-mt-pipeline-720p-100hz")

\* C7: for the label of this launch, no other tuple of config, enable_mt and
\* resolution is given the profile name this launch was given.
C7_NoCollision ==
    nsys_profile_name # UnboundStr =>
        \A c \in Configs, m \in BOOLEAN, r \in ResolutionArgs :
            <<c, m, r>> # <<config, enable_mt, resolution>>
                => build_profile_name(nsys_profile_label, c, m, r)
                       # nsys_profile_name

\* C8: both returned containers have the same prefix and the same two
\* timeouts; with enable_nsys the prefix is the nsys command built from the
\* flags and the built profile name and the timeouts are 500, without it the
\* prefix is empty, no profile name was built and the timeouts are 5.
C8_Profiling ==
    Done =>
        LET nsys == IfCondition(context, "enable_nsys")
        IN /\ \A g \in 1 .. 2 :
                  /\ nsys =>
                        /\ nsys_profile_name # UnboundStr
                        /\ result[g].prefix
                               = "nsys profile "
                                   \o Perform(context, "nsys_profile_flags")
                                   \o " -o " \o nsys_profile_name
                        /\ result[g].prefix # ""
                        /\ result[g].sigkill_timeout = "500"
                        /\ result[g].sigterm_timeout = "500"
                  /\ ~nsys =>
                        /\ nsys_profile_name = UnboundStr
                        /\ result[g].prefix = ""
                        /\ result[g].sigkill_timeout = "5"
                        /\ result[g].sigterm_timeout = "5"
           /\ result[1].prefix = result[2].prefix
           /\ result[1].sigkill_timeout = result[2].sigkill_timeout
           /\ result[1].sigterm_timeout = result[2].sigterm_timeout

C8_Witness ==
    /\ Done
    /\ IfCondition(context, "enable_nsys")
    /\ ~IfCondition(context, "enable_mt")
    /\ result[1].sigkill_timeout = "500"
    /\ StartsWith(result[2].prefix, "nsys profile --trace=osrt,nvtx,cuda -o ros-")

\* C9: with a resolution outside the table launch_setup ends in a KeyError at
\* the capture node and returns nothing, whatever the other arguments are;
\* with a resolution of the table it never fails, always has a next
\* statement until it returns, and the capture node's width and height are
\* the table's entry: (1920, 1080) for 1080p and (3840, 2160) for 4K.
C9_ResolutionLookup ==
    LET res == Perform(context, "resolution")
        known == {"16K", "8K", "4K", "1080p", "720p", "480p"}
    IN /\ (res \notin known /\ pc \notin {"start", "nsys", "cam2image"})
              => /\ pc = "failed"
                 /\ error = "KeyError"
                 /\ result = Unbound
                 /\ cam2image_node = Unbound
                 /\ composite_container = Unbound
                 /\ pipeline_container = Unbound
       /\ res \in known
              => /\ pc # "failed"
                 /\ error = "none"
                 /\ (~Done => ENABLED Next)
       /\ (res \in known /\ Done)
              => LET cam == PipelineStages[1]
                 IN /\ cam = CompositeStages[1]
                    /\ cam.plugin = Cam2ImagePlugin
                    /\ <<Param(cam, "width"), Param(cam, "height")>>
                           = RESOLUTIONS[res]
                    /\ (res = "1080p" => /\ Param(cam, "width") = 1920
                                         /\ Param(cam, "height") = 1080)
                    /\ (res = "4K" => /\ Param(cam, "width") = 3840
                                      /\ Param(cam, "height") = 2160)

C9_Witness ==
    /\ pc = "failed"
    /\ error = "KeyError"
    /\ Perform(context, "resolution") = "2K"
    /\ Perform(context, "config") = "mt-pipeline"
    /\ enable_nsys
    /\ result = Unbound

\* C10: the instance names of the pipeline stage list are pairwise distinct;
\* the k-th iterative stage is named juliaset_node followed by the decimal
\* digits of k and carries is_composite = FALSE and proc_id = k, so the
\* suffixes increase strictly along the list; the two names of the composite
\* stage list are distinct.
C10_InjectiveNames ==
    Done =>
        LET L == PipelineStages
            N == chain_length
        IN /\ Injective([p \in 1 .. Len(L) |-> L[p].name])
           /\ \A k \in 1 .. (N - 1) :
                  /\ StartsWith(L[k + 2].name, "juliaset_node")
                  /\ ParseNat(NameSuffix(L[k + 2])) = k
                  /\ Len(NameSuffix(L[k + 2])) = (IF k < 10 THEN 1 ELSE 2)
                  /\ Param(L[k + 2], "is_composite") = FALSE
                  /\ Param(L[k + 2], "proc_id") = k
           /\ \A k \in 1 .. (N - 2) :
                  ParseNat(NameSuffix(L[k + 2]))
                      < ParseNat(NameSuffix(L[k + 3]))
           /\ CompositeStages[1].name # CompositeStages[2].name

C10_Witness ==
    /\ Done
    /\ chain_length = 50
    /\ PipelineStages[51].name = "juliaset_node49"
    /\ Param(PipelineStages[51], "proc_id") = 49

====
